---------------------------- MODULE Spec2Model ----------------------------
(***************************************************************************)
(* A model of obd/obd.py: the OBD session object.  The session owns the    *)
(* ELM327 transport handle, the supported-command set and the two request  *)
(* memos, and offers query, query_multi, test_cmd and close.               *)
(*                                                                         *)
(* Byte strings are sequences of one-character strings; reply data are     *)
(* sequences of byte values.  The command registry, the ELM327 transport   *)
(* and the per-command decoders live outside obd.py: the registry is a     *)
(* small fixed catalogue, the transport's answers are inputs.              *)
(***************************************************************************)
EXTENDS Integers, Sequences, FiniteSets, TLC

(***************************************************************************)
(* Bounds of the model.                                                    *)
(***************************************************************************)
\* at most this many API calls (query, query_multi, test_cmd, close) a session
MaxCalls == 2
\* at most this many candidate ports returned by scan_serial()
MaxPorts == 2
\* at most this many bytes after the mode byte in the data of a batched reply
MaxBody == 4

(***************************************************************************)
(* OBDStatus (utils.py): ordered tiers.                                    *)
(***************************************************************************)
NOT_CONNECTED == 0
ELM_CONNECTED == 1
CAR_CONNECTED == 2

\* the protocol ids of the CAN protocols, as listed in test_cmd and query_multi
CAN_IDS == {"6", "7", "8", "9"}

\* query_multi's ceiling on the number of commands in one request
MAX_MULTI == 6

(***************************************************************************)
(* The ELM327 transport (elm327.py), one per port: the status and the      *)
(* protocol id it reports once constructed.  "None" is Python's None.      *)
(***************************************************************************)
Ports == {"dead", "elm", "can"}

PortStatus(p) ==
    CASE p = "dead"  -> NOT_CONNECTED
      [] p = "elm"   -> ELM_CONNECTED
      [] p = "can"   -> CAR_CONNECTED

PortProtocol(p) ==
    CASE p = "dead"  -> ""
      [] p = "elm"   -> ""
      [] p = "can"   -> "6"

(***************************************************************************)
(* The command registry (commands.py).  A command is known by its name;    *)
(* mode, pid, bytes, fast and command are the attributes obd.py reads.     *)
(***************************************************************************)
Commands == {"PIDS_A", "RPM", "SPEED", "PIDS_B", "DTC_RPM", "MIDS_A"}

Registry(c) ==
    CASE c = "PIDS_A"  -> [mode |-> 1, pid |-> 0,  bytes |-> 6, fast |-> TRUE,
                           command |-> <<"0", "1", "0", "0">>]
      [] c = "RPM"     -> [mode |-> 1, pid |-> 12, bytes |-> 4, fast |-> TRUE,
                           command |-> <<"0", "1", "0", "C">>]
      [] c = "SPEED"   -> [mode |-> 1, pid |-> 13, bytes |-> 2, fast |-> TRUE,
                           command |-> <<"0", "1", "0", "D">>]
      [] c = "PIDS_B"  -> [mode |-> 1, pid |-> 32, bytes |-> 6, fast |-> TRUE,
                           command |-> <<"0", "1", "2", "0">>]
      [] c = "DTC_RPM" -> [mode |-> 2, pid |-> 12, bytes |-> 4, fast |-> TRUE,
                           command |-> <<"0", "2", "0", "C">>]
      [] c = "MIDS_A"  -> [mode |-> 6, pid |-> 0,  bytes |-> 0, fast |-> FALSE,
                           command |-> <<"0", "6", "0", "0">>]

\* commands.base_commands(): always assumed supported
base_commands == {"PIDS_A", "MIDS_A"}

\* commands.pid_getters(): the listing commands, in probing order
pid_getters == <<"PIDS_A", "PIDS_B", "MIDS_A">>

\* commands.has_pid(mode, pid)
has_pid(mode, pid) ==
    \E c \in Commands : Registry(c).mode = mode /\ Registry(c).pid = pid

\* commands[mode][pid]
command_at(mode, pid) ==
    CHOOSE c \in Commands : Registry(c).mode = mode /\ Registry(c).pid = pid

(***************************************************************************)
(* Python helpers.                                                         *)
(***************************************************************************)
Min(a, b) == IF a < b THEN a ELSE b
Max(a, b) == IF a > b THEN a ELSE b

\* the position a slice bound i denotes in a sequence of length n
PyBound(i, n) == IF i < 0 THEN Max(n + i, 0) ELSE Min(i, n)

\* s[:i]
SliceTo(s, i) == SubSeq(s, 1, PyBound(i, Len(s)))

\* s[i:]
SliceFrom(s, i) == SubSeq(s, PyBound(i, Len(s)) + 1, Len(s))

Digit(d) ==
    CASE d = 0 -> "0" [] d = 1 -> "1" [] d = 2 -> "2" [] d = 3 -> "3"
      [] d = 4 -> "4" [] d = 5 -> "5" [] d = 6 -> "6" [] d = 7 -> "7"
      [] d = 8 -> "8" [] d = 9 -> "9"

\* str(n).encode() for n >= 0: the decimal text of n
RECURSIVE Decimal(_)
Decimal(n) ==
    IF n < 10 THEN <<Digit(n)>> ELSE Decimal(n \div 10) \o <<Digit(n % 10)>>

\* sum([len(m.frames) for m in messages]); a message is given by its frame count
RECURSIVE SumFrames(_)
SumFrames(messages) ==
    IF messages = <<>> THEN 0 ELSE Head(messages) + SumFrames(Tail(messages))

\* sequences over S of length at most n
SeqsUpTo(S, n) == UNION {[1..k -> S] : k \in 0..n}

\* sequences over S of length at most n in which no element repeats
DistinctSeqs(S, n) ==
    {s \in SeqsUpTo(S, n) : \A i, j \in 1..Len(s) : s[i] = s[j] => i = j}


(***************************************************************************)
(* Inputs from outside obd.py.                                             *)
(***************************************************************************)
\* what send_and_parse returns to query: a list of Messages, each given by
\* the number of frames it holds
Replies == {<<>>, <<2, 10>>}

\* the commands query and test_cmd are called with: a base listing command,
\* one that discovery may add, one that is never supported, and a mode 6 one
Asked == {"PIDS_A", "RPM", "SPEED", "MIDS_A"}

\* the bit positions a listing command's decoded value may have set; bit i
\* of listing command g addresses the pid g.pid + i + 1
BitPositions == {5, 11, 31}

(***************************************************************************)
(* State.                                                                  *)
(***************************************************************************)
VARIABLES
    portstr,            \* __init__'s portstr argument ("None" when not given)
    portnames,          \* what scan_serial() returns
    interface,          \* self.interface: the port of the held ELM327, or "None"
    supported_commands, \* self.supported_commands
    fast,               \* self.fast
    last_command,       \* self.__last_command
    frame_counts,       \* self.__frame_counts
    pc,                 \* where the session is: connect, load, ready, walk
    get_i,              \* __load_commands: index of the next listing command
    cmds,               \* query_multi: the commands requested
    mode,               \* query_multi: the mode byte popped off the carrier
    master,             \* query_multi: master.data, the carrier bytes left
    responses,          \* query_multi: the responses dict (<<>> is a null Response)
    constructed,        \* history: the ports an ELM327 was constructed on, in order
    closes,             \* history: calls of the transport's close()
    call,               \* history: the last API call and its outcome
    tx,                 \* history: the last two calls of send_and_parse
    wire,               \* history: the last non-empty request given to send_and_parse
    first_reply,        \* history: per command, the reply to its first query
    carrier,            \* history: query_multi's carrier data as received
    decodes,            \* history: query_multi's decoder calls, as <<command, data>>
    probe,              \* __load_commands: get and response of the loop pass made
    ncalls              \* number of API calls made

session == <<interface, supported_commands, fast, last_command, frame_counts>>
multi   == <<cmds, mode, master, responses, decodes>>
inputs  == <<portstr, portnames>>
history == <<constructed, closes, call, tx, wire, first_reply, carrier, ncalls>>
vars    == <<inputs, session, pc, get_i, probe, multi, history>>

NoCall ==
    [op |-> "none", cmds |-> <<>>, force |-> FALSE, sent |-> FALSE,
     built |-> <<>>, request |-> <<>>, frames |-> 0, result |-> "none"]

\* __load_commands is not inside its loop
NoProbe == [get |-> "None", queried |-> FALSE, null |-> FALSE, bits |-> {}]

\* __init__ up to its call of __connect
Init ==
    /\ portstr \in Ports \cup {"None"}
    /\ portnames \in DistinctSeqs(Ports, MaxPorts)
    /\ portstr # "None" => portnames = <<>>
    /\ interface = "None"
    /\ supported_commands = base_commands
    /\ fast \in BOOLEAN
    /\ last_command = <<>>
    /\ frame_counts = [c \in {} |-> 0]
    /\ pc = "connect"
    /\ get_i = 1
    /\ cmds = <<>>
    /\ mode = 0
    /\ master = <<>>
    /\ responses = [c \in {} |-> <<>>]
    /\ constructed = <<>>
    /\ closes = 0
    /\ call = NoCall
    /\ tx = <<>>
    /\ wire = <<>>
    /\ first_reply = [c \in {} |-> <<>>]
    /\ carrier = <<>>
    /\ decodes = {}
    /\ probe = NoProbe
    /\ ncalls = 0

(***************************************************************************)
(* status, protocol_id, close, __connect.                                  *)
(***************************************************************************)
\* OBD.status() for a given handle
StatusOf(iface) == IF iface = "None" THEN NOT_CONNECTED ELSE PortStatus(iface)

status == StatusOf(interface)

\* self.interface.protocol_id(), for a held handle
protocol_id == PortProtocol(interface)

\* OBD.protocol_id()
obd_protocol_id == IF interface = "None" THEN "" ELSE protocol_id

\* close() calling the transport's close() without looking at the handle
close_unguarded(iface, nclosed) ==
    [supported_commands |-> {},
     interface |-> "None",
     closes |-> nclosed + 1]

\* OBD.close(): the session it leaves
close(iface, nclosed) ==
    [supported_commands |-> {},
     interface |-> "None",
     closes |-> IF iface # "None" THEN nclosed + 1 ELSE nclosed]

\* the scan loop without its break
Attempted_no_break(names) == names

\* the candidates the scan loop constructs an ELM327 on: up to and including
\* the first whose status is at least ELM_CONNECTED
RECURSIVE Attempted(_)
Attempted(names) ==
    IF names = <<>> THEN <<>>
    ELSE IF PortStatus(Head(names)) >= ELM_CONNECTED THEN <<Head(names)>>
    ELSE <<Head(names)>> \o Attempted(Tail(names))

\* OBD.__connect
Connect ==
    /\ pc = "connect"
    /\ LET tried == IF portstr = "None" THEN Attempted(portnames) ELSE <<portstr>>
           held  == IF tried = <<>> THEN "None" ELSE tried[Len(tried)]
           after == close(held, closes)
       IN  /\ constructed' = tried
           /\ IF held # "None" /\ StatusOf(held) = NOT_CONNECTED
              THEN /\ interface' = after.interface
                   /\ supported_commands' = after.supported_commands
                   /\ closes' = after.closes
              ELSE /\ interface' = held
                   /\ UNCHANGED <<supported_commands, closes>>
    /\ pc' = "load"
    /\ UNCHANGED <<inputs, fast, last_command, frame_counts, get_i, multi,
                   call, tx, wire, first_reply, carrier, probe, ncalls>>

(***************************************************************************)
(* test_cmd, __build_command_string, query.                                *)
(***************************************************************************)
\* OBD.supports
supports(cmd) == cmd \in supported_commands

\* test_cmd passing every command
test_cmd_passes_all(cmd) == "True"

\* test_cmd without its mode 06 test
test_cmd_any_protocol(cmd) == IF supports(cmd) THEN "True" ELSE "False"

\* OBD.test_cmd: "True", "False", or the exception it raises
test_cmd(cmd) ==
    IF ~supports(cmd) THEN "False"
    ELSE IF Registry(cmd).mode # 6 THEN "True"
    ELSE IF interface = "None" THEN "AttributeError"
    ELSE IF protocol_id \notin CAN_IDS THEN "False"
    ELSE "True"

\* __build_command_string up to the frame-count append
WithFrameCount(cmd) ==
    IF fast /\ Registry(cmd).fast /\ cmd \in DOMAIN frame_counts
    THEN Registry(cmd).command \o Decimal(frame_counts[cmd])
    ELSE Registry(cmd).command

\* __build_command_string without the repeat elision
build_never_elides(cmd) == WithFrameCount(cmd)

\* __build_command_string comparing only the mode part with the last request
build_elides_by_mode(cmd) ==
    IF fast /\ SliceTo(WithFrameCount(cmd), 2) = SliceTo(last_command, 2)
    THEN <<>> ELSE WithFrameCount(cmd)

\* OBD.__build_command_string
build_command_string(cmd) ==
    IF fast /\ WithFrameCount(cmd) = last_command THEN <<>> ELSE WithFrameCount(cmd)

\* query without the supportability test
QuerySends_untested(cmd, force) == status # NOT_CONNECTED

\* query: whether the call gets as far as send_and_parse
QuerySends(cmd, force) ==
    /\ status # NOT_CONNECTED
    /\ force \/ test_cmd(cmd) = "True"

\* query noting every request sent, the empty one too
NoteLastCommand_every_request(cmd_string) == cmd_string

\* query: self.__last_command after a request cmd_string was sent
NoteLastCommand(cmd_string) ==
    IF cmd_string # <<>> THEN cmd_string ELSE last_command

\* query recording the frame count of every reply, not only the first
NoteFrameCount_every_reply(cmd, messages) ==
    [c \in DOMAIN frame_counts \cup {cmd} |->
        IF c = cmd THEN SumFrames(messages) ELSE frame_counts[c]]

\* query: self.__frame_counts after the reply to cmd came
NoteFrameCount(cmd, messages) ==
    IF cmd \notin DOMAIN frame_counts
    THEN frame_counts @@ (cmd :> SumFrames(messages))
    ELSE frame_counts

\* the last two calls of send_and_parse, the newest last
Push(log, e) == IF Len(log) < 2 THEN Append(log, e) ELSE <<log[2], e>>

\* OBD.query(cmd, force) when send_and_parse answers with messages
query(cmd, force, messages) ==
    IF QuerySends(cmd, force)
    THEN LET cmd_string == build_command_string(cmd)
         IN  /\ last_command' = NoteLastCommand(cmd_string)
             /\ frame_counts' = NoteFrameCount(cmd, messages)
             /\ call' = [op |-> "query", cmds |-> <<cmd>>, force |-> force,
                         sent |-> TRUE, built |-> WithFrameCount(cmd),
                         request |-> cmd_string, frames |-> SumFrames(messages),
                         result |-> IF messages = <<>> THEN "null" ELSE "decoded"]
             /\ tx' = Push(tx, [op |-> "query", cmds |-> <<cmd>>,
                                request |-> cmd_string,
                                memo |-> cmd \in DOMAIN frame_counts,
                                again |-> cmd \in DOMAIN first_reply])
             /\ wire' = IF cmd_string # <<>> THEN cmd_string ELSE wire
             /\ first_reply' = IF cmd \in DOMAIN first_reply THEN first_reply
                               ELSE first_reply @@ (cmd :> messages)
    ELSE /\ call' = [op |-> "query", cmds |-> <<cmd>>, force |-> force,
                     sent |-> FALSE, built |-> <<>>, request |-> <<>>,
                     frames |-> 0, result |-> "null"]
         /\ UNCHANGED <<last_command, frame_counts, tx, wire, first_reply>>

\* the API call OBD.query
Query ==
    /\ pc = "ready"
    /\ ncalls < MaxCalls
    /\ \E cmd \in Asked, force \in BOOLEAN, messages \in Replies :
           query(cmd, force, messages)
    /\ ncalls' = ncalls + 1
    /\ UNCHANGED <<inputs, interface, supported_commands, fast, pc, get_i, multi,
                   constructed, closes, carrier, probe>>

\* the API call OBD.test_cmd
TestCmd ==
    /\ pc = "ready"
    /\ ncalls < MaxCalls
    /\ \E cmd \in Asked :
           call' = [op |-> "test_cmd", cmds |-> <<cmd>>, force |-> FALSE,
                    sent |-> FALSE, built |-> <<>>, request |-> <<>>,
                    frames |-> 0, result |-> test_cmd(cmd)]
    /\ ncalls' = ncalls + 1
    /\ UNCHANGED <<inputs, session, pc, get_i, multi, constructed, closes, tx,
                   wire, first_reply, carrier, probe>>

\* the API call OBD.close
Close ==
    /\ pc = "ready"
    /\ ncalls < MaxCalls
    /\ LET after == close(interface, closes)
       IN  /\ interface' = after.interface
           /\ supported_commands' = after.supported_commands
           /\ closes' = after.closes
    /\ call' = [NoCall EXCEPT !.op = "close"]
    /\ ncalls' = ncalls + 1
    /\ UNCHANGED <<inputs, fast, last_command, frame_counts, pc, get_i, multi,
                   constructed, tx, wire, first_reply, carrier, probe>>

(***************************************************************************)
(* __load_commands: one step per pass of its loop, and one for its return. *)
(***************************************************************************)
\* the set bits read as bit i addressing the pid get.pid + i
Discovered_off_by_one(get, bits) ==
    LET m == Registry(get).mode
        p(i) == Registry(get).pid + i
    IN  {command_at(m, p(i)) : i \in {j \in bits : has_pid(m, p(j))}}
        \cup {command_at(2, p(i)) : i \in {j \in bits : m = 1 /\ has_pid(2, p(j))}}

\* the commands the set bits of listing command get add to supported_commands
Discovered(get, bits) ==
    LET m == Registry(get).mode
        p(i) == Registry(get).pid + i + 1
    IN  {command_at(m, p(i)) : i \in {j \in bits : has_pid(m, p(j))}}
        \cup {command_at(2, p(i)) : i \in {j \in bits : m = 1 /\ has_pid(2, p(j))}}

\* the set assigned the commands found, not added to
add_all_overwrites(found) == found

\* self.supported_commands.add(c) for every c found
add_all(found) == supported_commands \cup found

\* OBD.__load_commands: the status test, then the loop pass for
\* pid_getters[get_i], or the return once the loop has run out
LoadCommands ==
    /\ pc = "load"
    /\ IF status # CAR_CONNECTED
       THEN /\ pc' = "ready"
            /\ UNCHANGED <<supported_commands, last_command, frame_counts, get_i,
                           call, tx, wire, first_reply, probe>>
       ELSE IF get_i > Len(pid_getters)
       THEN /\ pc' = "ready"
            /\ probe' = NoProbe
            /\ UNCHANGED <<supported_commands, last_command, frame_counts, get_i,
                           call, tx, wire, first_reply>>
       ELSE LET get == pid_getters[get_i]
            IN  /\ get_i' = get_i + 1
                /\ pc' = "load"
                /\ IF test_cmd(get) # "True"
                   THEN /\ probe' = [NoProbe EXCEPT !.get = get]
                        /\ UNCHANGED <<supported_commands, last_command,
                                       frame_counts, call, tx, wire, first_reply>>
                   ELSE \E messages \in Replies, null \in BOOLEAN,
                           bits \in SUBSET BitPositions :
                            /\ messages = <<>> => null
                            /\ null => bits = {}
                            /\ query(get, FALSE, messages)
                            /\ probe' = [get |-> get, queried |-> TRUE,
                                         null |-> null, bits |-> bits]
                            /\ supported_commands' =
                                 IF null THEN supported_commands
                                 ELSE add_all(Discovered(get, bits))
    /\ UNCHANGED <<inputs, interface, fast, multi, constructed, closes, carrier,
                   ncalls>>

(***************************************************************************)
(* query_multi: the call up to the start of its reassembly loop, then one  *)
(* action per pass of the loop.                                            *)
(***************************************************************************)
\* the byte values reply data are made of
Bytes == {0, 12, 13, 26}

\* the mode byte that leads the data of a batched reply
ModeEcho == 65

\* the command lists query_multi is called with
SevenCommands == [i \in 1..(MAX_MULTI + 1) |-> "RPM"]
AllLists == SeqsUpTo({"RPM", "SPEED", "DTC_RPM", "MIDS_A"}, 2) \cup {SevenCommands}
BriefLists == {<<"RPM">>, <<"PIDS_A", "RPM">>}

\* what send_and_parse returns to query_multi: a list of Messages, each given
\* by its data (only the first is read)
AllData ==
    {<<>>} \cup {<<<<>>>>}
           \cup {<<<<ModeEcho>> \o body>> : body \in SeqsUpTo(Bytes, MaxBody)}
BriefData == {<<>>, <<<<ModeEcho>>>>, <<<<ModeEcho, 12, 26>>>>}

\* query_multi's preconditions without the same-mode test
MultiReject_any_modes(cs, force) ==
    IF status = NOT_CONNECTED THEN "null"
    ELSE IF protocol_id \notin CAN_IDS THEN "null"
    ELSE IF Len(cs) > MAX_MULTI THEN "null"
    ELSE IF Len(cs) = 0 THEN "null"
    ELSE IF ~force /\ \E i \in 1..Len(cs) : test_cmd(cs[i]) # "True" THEN "None"
    ELSE "pass"

\* the first rejection query_multi's preconditions give, or "pass"
MultiReject(cs, force) ==
    IF status = NOT_CONNECTED THEN "null"
    ELSE IF protocol_id \notin CAN_IDS THEN "null"
    ELSE IF Len(cs) > MAX_MULTI THEN "null"
    ELSE IF Len(cs) = 0 THEN "null"
    ELSE IF ~force /\ \E i \in 1..Len(cs) : test_cmd(cs[i]) # "True" THEN "None"
    ELSE IF \E i \in 1..Len(cs) : Registry(cs[i]).mode # Registry(cs[1]).mode
         THEN "None"
    ELSE "pass"

\* the concatenation of the pid parts, cmd.command[2:], of the commands cs
RECURSIVE PidParts(_)
PidParts(cs) ==
    IF cs = <<>> THEN <<>>
    ELSE SliceFrom(Registry(Head(cs)).command, 2) \o PidParts(Tail(cs))

\* query_multi's request: the mode part of the first command, then the pid parts
MultiCommandString(cs) == SliceTo(Registry(cs[1]).command, 2) \o PidParts(cs)

\* cmds_by_pid.get(pid, None): the last requested command with that pid
ByPid(cs, pid) ==
    LET at == {i \in 1..Len(cs) : Registry(cs[i]).pid = pid}
    IN  IF at = {} THEN "None"
        ELSE cs[CHOOSE i \in at : \A j \in at : j <= i]

\* the segment length taken as cmd.bytes, the mode byte counted in
SegmentLen_whole_reply(cmd) == Registry(cmd).bytes

\* the length l of the carrier segment of cmd
SegmentLen(cmd) == Registry(cmd).bytes - 1

\* cmd(message): the Response of cmd's decoder, given by the data it decoded
Decode(cmd, data) == data

\* the loop pass without its test of the length left
WalkOutcome_no_length_test(cs, data) ==
    IF ByPid(cs, data[1]) = "None" THEN "raise" ELSE "decode"

\* how one pass of the reassembly loop over carrier data ends:
\* "raise" (cmd.pid read off None), "break", or "decode"
WalkOutcome(cs, data) ==
    IF ByPid(cs, data[1]) = "None" THEN "raise"
    ELSE IF SegmentLen(ByPid(cs, data[1])) > Len(data) THEN "break"
    ELSE "decode"

\* the fields of call a query_multi that has sent its request leaves
MultiCall(cs, force, result) ==
    [op |-> "query_multi", cmds |-> cs, force |-> force, sent |-> TRUE,
     built |-> MultiCommandString(cs), request |-> MultiCommandString(cs),
     frames |-> 0, result |-> result]

\* the API call OBD.query_multi, up to the first test of the while loop
QueryMulti(lists, datas, budget) ==
    /\ pc = "ready"
    /\ ncalls < budget
    /\ ncalls' = ncalls + 1
    /\ \E cs \in lists, force \in BOOLEAN, messages \in datas :
         IF MultiReject(cs, force) # "pass"
         THEN /\ call' = [op |-> "query_multi", cmds |-> cs, force |-> force,
                          sent |-> FALSE, built |-> <<>>, request |-> <<>>,
                          frames |-> 0, result |-> MultiReject(cs, force)]
              /\ UNCHANGED <<pc, multi, tx, wire, carrier>>
         ELSE /\ tx' = Push(tx, [op |-> "query_multi", cmds |-> cs,
                                 request |-> MultiCommandString(cs),
                                 memo |-> FALSE, again |-> FALSE])
              /\ wire' = MultiCommandString(cs)
              /\ IF messages = <<>>
                 THEN /\ call' = MultiCall(cs, force, "null")
                      /\ UNCHANGED <<pc, multi, carrier>>
                 ELSE IF messages[1] = <<>>
                 THEN /\ call' = MultiCall(cs, force, "IndexError")
                      /\ UNCHANGED <<pc, multi, carrier>>
                 ELSE /\ cmds' = cs
                      /\ mode' = Head(messages[1])
                      /\ master' = Tail(messages[1])
                      /\ carrier' = Tail(messages[1])
                      /\ responses' = [c \in {cs[i] : i \in 1..Len(cs)} |-> <<>>]
                      /\ decodes' = {}
                      /\ pc' = IF Tail(messages[1]) = <<>> THEN "ready" ELSE "walk"
                      /\ call' = MultiCall(cs, force,
                                    IF Tail(messages[1]) = <<>> THEN "None"
                                    ELSE "walking")
    /\ UNCHANGED <<inputs, session, get_i, constructed, closes, first_reply,
                   probe>>

\* one pass of query_multi's while loop, with the loop test that follows it
WalkStep ==
    /\ pc = "walk"
    /\ LET cmd  == ByPid(cmds, master[1])
           l    == SegmentLen(cmd)
           how  == WalkOutcome(cmds, master)
           left == SliceFrom(master, l)
       IN  IF how = "decode"
           THEN /\ responses' =
                      [responses EXCEPT
                         ![cmd] = Decode(cmd, <<mode>> \o SliceTo(master, l))]
                /\ decodes' = decodes \cup {<<cmd, <<mode>> \o SliceTo(master, l)>>}
                /\ master' = left
                /\ pc' = IF left = <<>> THEN "ready" ELSE "walk"
                /\ call' = [call EXCEPT
                              !.result = IF left = <<>> THEN "None" ELSE "walking"]
           ELSE /\ pc' = "ready"
                /\ call' = [call EXCEPT
                              !.result = IF how = "raise" THEN "AttributeError"
                                         ELSE "None"]
                /\ UNCHANGED <<responses, decodes, master>>
    /\ UNCHANGED <<inputs, session, get_i, cmds, mode, constructed, closes, tx,
                   wire, first_reply, carrier, probe, ncalls>>

Next ==
    \/ Connect
    \/ LoadCommands
    \/ Query
    \/ TestCmd
    \/ Close
    \/ QueryMulti(BriefLists, BriefData, MaxCalls)
    \/ WalkStep

Spec == Init /\ [][Next]_vars

(***************************************************************************)
(* One query_multi call, with every command list and every reply, on a     *)
(* session as __init__ leaves it when given an explicit port.  On the car  *)
(* port the vehicle answered PIDS_A with 12 frames and bit 11 set (RPM,    *)
(* and DTC_RPM with it) and gave no data for MIDS_A; on the other two      *)
(* ports __load_commands returned at once.  These are the states Spec      *)
(* reaches with pc = "ready" and ncalls = 0 from those inputs.             *)
(***************************************************************************)
InitMulti ==
    /\ portstr \in Ports
    /\ portnames = <<>>
    /\ fast = TRUE
    /\ constructed = <<portstr>>
    /\ interface = IF portstr = "dead" THEN "None" ELSE portstr
    /\ closes = IF portstr = "dead" THEN 1 ELSE 0
    /\ pc = "ready"
    /\ get_i = IF portstr = "can" THEN Len(pid_getters) + 1 ELSE 1
    /\ supported_commands =
         CASE portstr = "dead" -> {}
           [] portstr = "elm"  -> base_commands
           [] portstr = "can"  -> base_commands \cup {"RPM", "DTC_RPM"}
    /\ last_command = IF portstr = "can" THEN Registry("MIDS_A").command ELSE <<>>
    /\ wire = last_command
    /\ frame_counts = IF portstr = "can"
                      THEN ("PIDS_A" :> 12) @@ ("MIDS_A" :> 0)
                      ELSE [c \in {} |-> 0]
    /\ first_reply = IF portstr = "can"
                     THEN ("PIDS_A" :> <<2, 10>>) @@ ("MIDS_A" :> <<>>)
                     ELSE [c \in {} |-> <<>>]
    /\ carrier = <<>>
    /\ tx = IF portstr = "can"
            THEN <<[op |-> "query", cmds |-> <<"PIDS_A">>,
                    request |-> Registry("PIDS_A").command, memo |-> FALSE,
                    again |-> FALSE],
                   [op |-> "query", cmds |-> <<"MIDS_A">>,
                    request |-> Registry("MIDS_A").command, memo |-> FALSE,
                    again |-> FALSE]>>
            ELSE <<>>
    /\ call = IF portstr = "can"
              THEN [op |-> "query", cmds |-> <<"MIDS_A">>, force |-> FALSE,
                    sent |-> TRUE, built |-> Registry("MIDS_A").command,
                    request |-> Registry("MIDS_A").command, frames |-> 0,
                    result |-> "null"]
              ELSE NoCall
    /\ cmds = <<>>
    /\ mode = 0
    /\ master = <<>>
    /\ responses = [c \in {} |-> <<>>]
    /\ decodes = {}
    /\ probe = NoProbe
    /\ ncalls = 0

NextMulti ==
    \/ QueryMulti(AllLists, AllData, 1)
    \/ WalkStep

SpecMulti == InitMulti /\ [][NextMulti]_vars

(***************************************************************************)
(* Properties.  call describes the last API call and the state it left;    *)
(* the last entry of tx is that call's request when call.sent holds.       *)
(***************************************************************************)
IsQuery == call.op = "query"
IsMulti == call.op = "query_multi"
Asked1 == call.cmds[1]
LastTx == tx[Len(tx)]

\* the last two calls of send_and_parse were both made by query
TwoQueries ==
    /\ Len(tx) = 2
    /\ tx[1].op = "query"
    /\ tx[2].op = "query"

\* C1, as stated: an unforced query of a command outside SupportedCommandSet
\* returns a null Response and sends nothing, and every forced query calls
\* send_and_parse.
C1_AsStated ==
    IsQuery =>
        /\ (~call.force /\ Asked1 \notin supported_commands)
              => (call.result = "null" /\ ~call.sent)
        /\ call.force => call.sent

\* C1, amended: an unforced query of a command outside SupportedCommandSet
\* returns a null Response and sends nothing; a forced query calls
\* send_and_parse, whether or not the command is in SupportedCommandSet,
\* provided the status is not NOT_CONNECTED.
C1_ForceBypassesSupport ==
    IsQuery =>
        /\ (~call.force /\ Asked1 \notin supported_commands)
              => (call.result = "null" /\ ~call.sent)
        /\ (call.force /\ status # NOT_CONNECTED) => call.sent

C1_Witness ==
    /\ IsQuery
    /\ call.force
    /\ Asked1 \notin supported_commands
    /\ call.sent
    /\ LastTx.cmds = call.cmds

\* C2, as stated: with fast mode on, the second of two queries of the same
\* command in a row is sent as the empty request.
C2_AsStated ==
    (fast /\ TwoQueries /\ tx[1].cmds = tx[2].cmds) => tx[2].request = <<>>

\* C2, amended: with fast mode on, the second of two queries of the same
\* command in a row is sent as the empty request, provided FrameCountMemo
\* already held the command before the first of the two or the command is not
\* fast_eligible.
C2_RepeatElided ==
    (/\ fast
     /\ TwoQueries
     /\ tx[1].cmds = tx[2].cmds
     /\ tx[1].memo \/ ~Registry(tx[1].cmds[1]).fast)
        => tx[2].request = <<>>

C2_Witness ==
    /\ fast
    /\ TwoQueries
    /\ tx[1].cmds = tx[2].cmds
    /\ tx[1].memo
    /\ Registry(tx[1].cmds[1]).fast
    /\ tx[1].request # <<>>
    /\ tx[2].request = <<>>

\* C3, as stated: with fast mode on, when two different commands are queried
\* back-to-back, both requests are non-empty.
C3_AsStated ==
    (fast /\ TwoQueries /\ tx[1].cmds # tx[2].cmds)
        => (tx[1].request # <<>> /\ tx[2].request # <<>>)

\* C3, amended: with fast mode on, when two different commands A and B are
\* queried back-to-back, the request sent for B, the second, is non-empty.
C3_DifferentNotElided ==
    (fast /\ TwoQueries /\ tx[1].cmds # tx[2].cmds) => tx[2].request # <<>>

C3_Witness ==
    /\ fast
    /\ TwoQueries
    /\ tx[1].cmds = <<"PIDS_A">>
    /\ tx[2].cmds = <<"RPM">>
    /\ tx[2].request = Registry("RPM").command

\* the frames of a reply, counted from its last Message
RECURSIVE FramesUpTo(_, _)
FramesUpTo(messages, k) ==
    IF k = 0 THEN 0 ELSE messages[k] + FramesUpTo(messages, k - 1)
FramesIn(messages) == FramesUpTo(messages, Len(messages))

\* C4: FrameCountMemo[cmd] is the number of frames of the reply to the first
\* query that sent cmd (0 when it had no Message), and every later query of
\* cmd, with fast mode on and cmd fast_eligible, builds its request as cmd's
\* template followed by the decimal text of that count.
C4_FirstCountAppended ==
    /\ \A c \in DOMAIN first_reply :
          /\ c \in DOMAIN frame_counts
          /\ frame_counts[c] = FramesIn(first_reply[c])
    /\ (IsQuery /\ call.sent /\ LastTx.again /\ fast /\ Registry(Asked1).fast)
          => /\ call.built = Registry(Asked1).command
                                \o Decimal(FramesIn(first_reply[Asked1]))
             /\ call.request \in {call.built, <<>>}

C4_Witness ==
    /\ IsQuery
    /\ call.sent
    /\ LastTx.again
    /\ fast
    /\ Asked1 = "RPM"
    /\ first_reply["RPM"] = <<2, 10>>
    /\ call.frames = 0
    /\ call.request = <<"0", "1", "0", "C", "1", "2">>

SameMode(cs) == \A i \in 1..Len(cs) : Registry(cs[i]).mode = Registry(cs[1]).mode

\* C6: a query_multi call with 0 commands, with 7 or more, with commands of
\* different modes, or while protocol_id is none of "6", "7", "8", "9",
\* returns a null Response or None, does not call send_and_parse, and leaves
\* SupportedCommandSet, FrameCountMemo and LastRequestMemo as they were.
C6_RejectedBatch ==
    [][(/\ ncalls' = ncalls + 1
        /\ call'.op = "query_multi"
        /\ \/ Len(call'.cmds) = 0
           \/ Len(call'.cmds) > MAX_MULTI
           \/ ~SameMode(call'.cmds)
           \/ obd_protocol_id \notin CAN_IDS)
       => /\ call'.result \in {"null", "None"}
          /\ ~call'.sent
          /\ tx' = tx
          /\ wire' = wire
          /\ UNCHANGED <<supported_commands, frame_counts, last_command>>]_vars

C6_Witness ==
    /\ IsMulti
    /\ call.cmds = <<"RPM", "DTC_RPM">>
    /\ call.force
    /\ interface = "can"
    /\ call.result = "None"
    /\ ~call.sent
    /\ LastTx.op = "query"

\* no command occurs twice in the list
Distinct(cs) == \A i, j \in 1..Len(cs) : cs[i] = cs[j] => i = j

\* the orders the answers to the commands cs may come in
Orders(cs) == {o \in [1..Len(cs) -> {cs[i] : i \in 1..Len(cs)}] : Distinct(o)}

\* data is, for each command of order in turn, the command's pid followed by
\* answer bytes, bytes - k bytes in all for a command
RECURSIVE Fits(_, _, _)
Fits(order, data, k) ==
    IF order = <<>> THEN data = <<>>
    ELSE LET n == Registry(Head(order)).bytes - k
         IN  /\ n >= 1
             /\ Len(data) >= n
             /\ data[1] = Registry(Head(order)).pid
             /\ Fits(Tail(order), SubSeq(data, n + 1, Len(data)), k)

\* the segments of such data: <<command, its bytes - k bytes>>
RECURSIVE Segments(_, _, _)
Segments(order, data, k) ==
    IF order = <<>> THEN {}
    ELSE LET n == Registry(Head(order)).bytes - k
         IN  {<<Head(order), SubSeq(data, 1, n)>>}
                \cup Segments(Tail(order), SubSeq(data, n + 1, Len(data)), k)

\* a query_multi call has returned or raised after its reassembly loop ran
Walked ==
    /\ pc = "ready"
    /\ IsMulti
    /\ call.sent
    /\ call.result \notin {"null", "IndexError"}

\* when every answer takes bytes - k bytes of the carrier, every command is
\* decoded from the mode byte and its own segment, and nothing is left over
Reassembled(k) ==
    \A order \in Orders(call.cmds) :
        (Walked /\ Distinct(call.cmds) /\ Fits(order, carrier, k)) =>
            /\ call.result = "None"
            /\ master = <<>>
            /\ decodes = {<<p[1], <<mode>> \o p[2]>> :
                             p \in Segments(order, carrier, k)}
            /\ \A p \in Segments(order, carrier, k) :
                   responses[p[1]] = <<mode>> \o p[2]

\* C7, as stated: when each answer occupies expected_reply_bytes bytes of the
\* carrier, each command is decoded from the mode byte and its own segment,
\* every command has a Response, and no carrier byte is left over.
C7_AsStated == Reassembled(0)

\* C7, amended: when each answer occupies expected_reply_bytes - 1 bytes of
\* the carrier (its identifier byte, then expected_reply_bytes - 2 answer
\* bytes), each command is decoded from the mode byte and its own segment,
\* every command has a Response, and no carrier byte is left over.
C7_Reassembly == Reassembled(1)

C7_Witness ==
    /\ Walked
    /\ call.cmds = <<"RPM", "SPEED">>
    /\ carrier = <<12, 26, 26, 13>>
    /\ master = <<>>
    /\ responses["RPM"] = <<ModeEcho, 12, 26, 26>>
    /\ responses["SPEED"] = <<ModeEcho, 13>>

\* a loop pass that finds fewer than bytes - k carrier bytes left for the
\* command its first byte names ends the loop and decodes nothing
TruncatedStops(k) ==
    (/\ pc = "walk"
     /\ ByPid(cmds, master[1]) # "None"
     /\ Len(master) < Registry(ByPid(cmds, master[1])).bytes - k)
    => /\ pc' = "ready"
       /\ call'.result = "None"
       /\ decodes' = decodes
       /\ responses' = responses

\* C8, as stated: when fewer than expected_reply_bytes carrier bytes are left
\* for the matched command, reassembly stops without decoding it, and it and
\* the commands not yet reached keep a null Response.
C8_AsStated == [][TruncatedStops(0)]_vars

\* C8, amended: when fewer than expected_reply_bytes - 1 carrier bytes are
\* left for the matched command (A, of 4 bytes, with only [0x0C, 0x1A] left),
\* reassembly stops without decoding it and leaves every Response as it was:
\* the commands not decoded before keep a null Response.
C8_Truncated == [][TruncatedStops(1)]_vars

C8_Witness ==
    /\ Walked
    /\ call.result = "None"
    /\ call.cmds = <<"RPM", "SPEED">>
    /\ carrier = <<12, 26>>
    /\ master = <<12, 26>>
    /\ decodes = {}
    /\ \A c \in DOMAIN responses : responses[c] = <<>>

\* C9: a loop pass whose first carrier byte is the pid of no requested command
\* ends the loop without an exception, decodes nothing more and keeps the
\* Responses decoded so far.
C9_UnmatchedStops ==
    [][(pc = "walk" /\ ByPid(cmds, master[1]) = "None")
       => /\ pc' = "ready"
          /\ call'.result = "None"
          /\ decodes' = decodes
          /\ responses' = responses]_vars

\* C10: a query_multi call that sent its request and got at least one Message
\* returns the responses mapping, one entry for each requested command.
C10_ReturnsMapping ==
    (pc = "ready" /\ IsMulti /\ call.sent /\ call.result # "null")
        => /\ call.result = "responses"
           /\ DOMAIN responses = {call.cmds[i] : i \in 1..Len(call.cmds)}

\* the registry commands bit i of listing command get stands for: the one of
\* get's mode at pid get.pid + i + 1 and, when get is of mode 1, the one of
\* mode 2 at that pid
Named(get, i) ==
    {c \in Commands :
        /\ Registry(c).pid = Registry(get).pid + i + 1
        /\ \/ Registry(c).mode = Registry(get).mode
           \/ Registry(get).mode = 1 /\ Registry(c).mode = 2}

\* a pass of __load_commands' loop that queried its listing command and got a
\* bit sequence
BitsRead == probe' # probe /\ probe'.queried /\ ~probe'.null

\* C11: a discovery pass whose listing command is queried and answers with a
\* bit sequence adds to SupportedCommandSet, for every set bit i, the registry
\* command at (listing.mode, listing.pid + i + 1) and, when the listing
\* command is of mode 1, the mode 2 command at that pid, each if the registry
\* defines it, and adds nothing else.
C11_BitsAdd ==
    [][BitsRead =>
          supported_commands' =
              supported_commands
                 \cup UNION {Named(probe'.get, i) : i \in probe'.bits}]_vars

C11_Witness ==
    /\ probe.get = "PIDS_A"
    /\ probe.queried
    /\ probe.bits = {5, 11}
    /\ supported_commands = base_commands \cup {"RPM", "DTC_RPM"}

\* C12: no step of discovery removes a command from SupportedCommandSet and
\* every pass leaves in it the commands its bits name; when discovery ends on a
\* session connect did not close, the set holds the base commands; and a step
\* that removes a command is a close(), called by connect or by the user.
C12_DiscoveryMonotone ==
    [][/\ pc = "load" => supported_commands \subseteq supported_commands'
       /\ BitsRead =>
             UNION {Named(probe'.get, i) : i \in probe'.bits}
                \subseteq supported_commands'
       /\ (pc = "load" /\ pc' = "ready" /\ closes = 0)
             => base_commands \subseteq supported_commands'
       /\ ~(supported_commands \subseteq supported_commands')
             => /\ supported_commands' = {}
                /\ interface' = "None"
                /\ pc = "connect" \/ call'.op = "close"]_vars

C12_Witness ==
    /\ pc = "ready"
    /\ ncalls = 0
    /\ get_i > Len(pid_getters)
    /\ supported_commands = base_commands \cup {"RPM", "DTC_RPM", "PIDS_B"}
    /\ first_reply["PIDS_B"] # <<>>

\* the step is a call of close() by the user
CloseCalled == ncalls' = ncalls + 1 /\ call'.op = "close"

\* C13: after any close() SupportedCommandSet is empty, no transport handle is
\* held and status() is NOT_CONNECTED; the transport's close() is called once
\* if a handle was held and not at all otherwise; and a close() of a closed
\* session leaves the session as it was.
C13_CloseIdempotent ==
    [][CloseCalled =>
          /\ supported_commands' = {}
          /\ interface' = "None"
          /\ StatusOf(interface') = NOT_CONNECTED
          /\ closes' = IF interface = "None" THEN closes ELSE closes + 1
          /\ call.op = "close" => UNCHANGED <<session, closes>>]_vars

C13_Witness ==
    /\ call.op = "close"
    /\ ncalls = 2
    /\ tx = <<>>
    /\ constructed = <<"elm">>
    /\ closes = 1
    /\ interface = "None"
    /\ supported_commands = {}

\* C14: after close() FrameCountMemo has no entry and LastRequestMemo is
\* empty, whatever was queried before.
C14_CloseClearsMemos ==
    call.op = "close" => (DOMAIN frame_counts = {} /\ last_command = <<>>)

\* C15: when __connect returns with status NOT_CONNECTED the session is as
\* close() leaves it: no transport handle is held and SupportedCommandSet is
\* empty.
C15_FailedConnectIsClosed ==
    (pc = "load" /\ status = NOT_CONNECTED)
        => (interface = "None" /\ supported_commands = {})

\* C16: without an explicit port, __connect constructs transports on the
\* candidates in enumeration order, each one before the last constructed
\* having failed, and goes past a candidate only if it failed; the handle
\* __connect keeps is the first candidate whose status is at least
\* ELM_CONNECTED.  With an explicit port exactly one transport is constructed,
\* on that port.
C16_FirstSuccessKept ==
    pc # "connect" =>
        IF portstr # "None" THEN constructed = <<portstr>>
        ELSE LET n == Len(constructed)
             IN  /\ n <= Len(portnames)
                 /\ constructed = SubSeq(portnames, 1, n)
                 /\ \A i \in 1..(n - 1) :
                        PortStatus(portnames[i]) < ELM_CONNECTED
                 /\ n < Len(portnames)
                        => (n > 0 /\ PortStatus(portnames[n]) >= ELM_CONNECTED)
                 /\ (pc = "load" /\ n > 0
                        /\ PortStatus(portnames[n]) >= ELM_CONNECTED)
                        => interface = portnames[n]

C16_Witness ==
    /\ pc = "load"
    /\ portstr = "None"
    /\ portnames = <<"elm", "can">>
    /\ constructed = <<"elm">>
    /\ interface = "elm"

\* C17: LastRequestMemo changes only when query passes a non-empty request to
\* send_and_parse, and then to that request: it is at all times the last
\* non-empty request query sent (empty before the first), and a query that
\* sends the empty request leaves it as it was.
C17_MemoKeepsLastSent ==
    [][/\ last_command' # last_command
             => /\ call'.op = "query"
                /\ call'.sent
                /\ call'.request # <<>>
       /\ (call'.op = "query" /\ call'.sent /\ call'.request # <<>>)
             => last_command' = call'.request]_vars

C17_Witness ==
    /\ IsQuery
    /\ call.sent
    /\ call.request = <<>>
    /\ last_command # <<>>
    /\ last_command = call.built
    /\ wire = last_command

\* C18: a pass of discovery's loop queries its listing command only if the
\* command is in SupportedCommandSet when the pass begins, as a base command
\* or as one named by a bit of a listing command queried earlier; a listing
\* command not in the set is passed over with nothing sent; and after every
\* pass, a null response included, the loop goes on to the next listing
\* command.
C18_ProbedOnlyIfSupported ==
    [][(pc = "load" /\ status = CAR_CONNECTED /\ get_i <= Len(pid_getters)) =>
          LET get == pid_getters[get_i]
          IN  /\ probe'.get = get
              /\ probe'.queried =>
                    /\ get \in supported_commands
                    /\ \/ get \in base_commands
                       \/ \E k \in 1..(get_i - 1), i \in BitPositions :
                             /\ pid_getters[k] \in DOMAIN first_reply
                             /\ get \in Named(pid_getters[k], i)
                    /\ call'.op = "query"
                    /\ call'.cmds = <<get>>
                    /\ call'.sent
              /\ get \notin supported_commands =>
                    /\ ~probe'.queried
                    /\ UNCHANGED <<call, tx, wire, first_reply, last_command,
                                   frame_counts>>
              /\ pc' = "load"
              /\ get_i' = get_i + 1]_vars

C18_Witness ==
    /\ pc = "load"
    /\ probe.get = "MIDS_A"
    /\ probe.queried
    /\ DOMAIN first_reply = {"PIDS_A", "MIDS_A"}
    /\ first_reply["PIDS_A"] = <<>>
    /\ "PIDS_B" \notin supported_commands

\* C19: whenever query passes the empty request to send_and_parse, the last
\* non-empty request sent on the transport, by query or by query_multi, is
\* the request query built for the command before eliding it.
C19_ElisionSound ==
    (IsQuery /\ call.sent /\ call.request = <<>>) => wire = call.built

\* C20: every pass of query_multi's reassembly loop either ends the loop or
\* leaves fewer carrier bytes than it found, whatever the carrier bytes and the
\* commands requested, commands of 0 or 1 expected_reply_bytes included.
C20_WalkShortens ==
    [][pc = "walk" => (pc' = "ready" \/ Len(master') < Len(master))]_vars

=============================================================================
